---- MODULE Spec2Model ----
(***************************************************************************)
(* Model of the proxy-scrapper repository.  The repository holds four      *)
(* independent programs (each a package main):                             *)
(*   "stream"  : src/unnamed/part_000, the streaming pipeline              *)
(*               (scrapeProxies -> checkProxyWorker -> collector);         *)
(*   "collect" : src/unnamed/part_001 lines 1-192, checkProxiesConcurrently *)
(*               with a collector goroutine on an unbuffered channel;      *)
(*   "checker" : src/unnamed/part_001 lines 194-545, ProxyChecker;         *)
(*   "deep"    : src/deep.go, checkProxiesConcurrently with a mutex.       *)
(* One run executes one program; prog says which.                          *)
(***************************************************************************)
EXTENDS Integers, Sequences, FiniteSets, TLC

VARIABLES
  prog,                \* which program this run executes
  mainpc,              \* position of the program's main goroutine
  probed,              \* "probe" run: a response, and what each probe function made of it
  dedup,               \* "dedup" run: a list, and what deduplicateProxies of deep.go made of it
  \* ---- stream (part_000) ----
  scraper,             \* per source: position of its scrapeProxies goroutine
  emitted,             \* lines read so far from all response bodies
  pending,             \* per source: the line its scrapeProxies goroutine is sending
  scrapedProxiesChan,  \* [buf, closed]: buffered channel scraper -> worker
  liveProxiesChan,     \* [buf, closed]: buffered channel worker -> collector
  checkWorker,         \* per worker id: [pc, addr] of checkProxyWorker
  collector,           \* collectAndSaveLiveProxies: [pc, uniqueProxies, writer, werr, count]
  outputFile,          \* contents of gemini_live_proxies.txt
  taken,               \* history: how often each line was received from the intake channel
  checkedLive,         \* history: the addresses of which a check ended with status 200
  \* ---- collect (part_001, first program) and deep (deep.go): checkProxiesConcurrently ----
  proxies,             \* the argument of checkProxiesConcurrently
  sem,                 \* number of tokens in the channel sem
  goroutine,           \* per index of proxies: the goroutine started for it
  goodProxies,         \* the list the function accumulates
  resultsChan,         \* collect: [closed] of the unbuffered channel results
  appender,            \* collect: [pc, proxy] of the goroutine that ranges over results
  mu,                  \* deep: holder of the mutex mu (0: free)
  returned,            \* the list checkProxiesConcurrently returned (<<"none">> before)
  \* ---- checker (part_001, second program: ProxyChecker) ----
  harvester,           \* per source: the goroutine of scrapeAllProxies running scrapeProxiesFromURL
  allProxies,          \* scrapeAllProxies: the list the goroutines append to
  scrapeMu,            \* scrapeAllProxies: holder of mu ("": free)
  uniqueProxies,       \* the result of removeDuplicateProxies, main's allProxies
  jobs,                \* validateProxies: [buf, closed, next] of the channel jobs
  pcWorker,            \* per worker id: the goroutine ProxyChecker.worker
  pcMu,                \* holder of pc.mu (-1: free)
  validProxies,        \* pc.validProxies
  invalidProxies,      \* pc.invalidProxies
  files,               \* [valid, invalid]: contents of the two output files
  saveErr,             \* per file: what saveProxiesToFile returned ("none" before)
  sinkFailure,         \* history, per file: a create or a write of this run failed
  stub                 \* history: every probe so far succeeded iff its proxy is 1.2.3.4:8080

streamVars == <<scraper, emitted, pending, scrapedProxiesChan, liveProxiesChan,
                checkWorker, collector, outputFile, taken, checkedLive>>

checkVars == <<proxies, sem, goroutine, goodProxies, resultsChan, appender, mu, returned>>

checkerVars == <<harvester, allProxies, scrapeMu, uniqueProxies, jobs, pcWorker, pcMu,
                 validProxies, invalidProxies, files, saveErr, sinkFailure, stub>>

vars == <<prog, mainpc, probed, dedup, streamVars, checkVars, checkerVars>>

(***************************************************************************)
(* Bounds of the model.  The pool sizes are the program's constants scaled *)
(* down (workerCount is 150 in part_000).                                  *)
(***************************************************************************)
workerCount == 2
\* scrapedProxiesChan holds workerCount*10 entries in the code; the factor is scaled.
intakeFactor == 1
\* lines read from all sources together in one run
MaxLines == 3
\* capacity of sem (maxConcurrentChecks is 200 in part_001 and in deep.go)
maxConcurrentChecks == 2
\* number of ProxyChecker workers (main passes 100 to NewProxyChecker)
maxWorkers == 2

(***************************************************************************)
(* Values.  A string is a sequence of chunks: an address is one chunk, a   *)
(* blank is the chunk " ".                                                 *)
(***************************************************************************)
A1 == "1.2.3.4:8080"
A2 == "5.6.7.8:3128"
A3 == "9.9.9.9:80"
Blank == " "

\* HTTP status codes a request can end with
StatusCodes == {101, 200, 302, 404}
\* result of one HTTP request: a transport error (timeout, refused, ...) or a status
HttpResults ==
  {[err |-> TRUE, status |-> 0]} \cup {[err |-> FALSE, status |-> c] : c \in StatusCodes}

\* The text lines a source's body can hold (part_000 reads the body line by line).
RawLines == { <<>>, <<Blank>>, <<A1>>, <<Blank, A1>>, <<A1, Blank>>, <<A2>>,
              <<A1, Blank, A2>> }

RECURSIVE TrimLeft(_)
TrimLeft(s) == IF s # <<>> /\ Head(s) = Blank THEN TrimLeft(Tail(s)) ELSE s

RECURSIVE TrimRight(_)
TrimRight(s) ==
  IF s # <<>> /\ s[Len(s)] = Blank THEN TrimRight(SubSeq(s, 1, Len(s) - 1)) ELSE s

\* strings.TrimSpace
TrimSpace(s) == TrimRight(TrimLeft(s))

\* url.Parse("http://" + proxy) succeeds: a host with a blank in it is rejected
UrlParseOK(p) == \A i \in 1..Len(p) : p[i] # Blank

\* every value a scraper can put on the intake channel
StreamLines == { TrimSpace(l) : l \in RawLines } \ { <<>> }

(***************************************************************************)
(* stream: src/unnamed/part_000                                            *)
(***************************************************************************)
StreamSources == {"src1", "src2"}

\* ids a worker goroutine can have; main starts SpawnedWorkers of them
WorkerIds == 0..workerCount
SpawnedWorkers == 1..workerCount

scrapedCap == workerCount * intakeFactor
liveCap == workerCount

\* the stream program runs until log.Fatalf ends the process
Streaming == prog = "stream" /\ mainpc # "exit"

StreamInit ==
  /\ scraper = [s \in StreamSources |-> "idle"]
  /\ emitted = 0
  /\ pending = [s \in StreamSources |-> <<>>]
  /\ scrapedProxiesChan = [buf |-> <<>>, closed |-> FALSE]
  /\ liveProxiesChan = [buf |-> <<>>, closed |-> FALSE]
  /\ checkWorker = [w \in WorkerIds |-> [pc |-> "idle", addr |-> <<>>]]
  /\ collector = [pc |-> "idle", uniqueProxies |-> {}, writer |-> <<>>,
                  werr |-> FALSE, count |-> 0]
  /\ outputFile \in (IF prog = "stream" THEN { <<>>, << <<A3>> >> } ELSE { <<>> })
  /\ taken = [l \in StreamLines |-> 0]
  /\ checkedLive = {}

\* main, lines 54-86: remove the old file, start the collector, the workers, the scrapers
MainStart ==
  /\ Streaming /\ mainpc = "start"
  /\ outputFile' = <<>>
  /\ collector' = [collector EXCEPT !.pc = "create"]
  /\ checkWorker' = [w \in WorkerIds |->
                       IF w \in SpawnedWorkers
                       THEN [checkWorker[w] EXCEPT !.pc = "recv"]
                       ELSE checkWorker[w]]
  /\ scraper' = [s \in StreamSources |-> "get"]
  /\ mainpc' = "waitScrapers"
  /\ UNCHANGED <<checkVars, checkerVars, prog, probed, dedup, emitted, pending, scrapedProxiesChan, liveProxiesChan, taken, checkedLive>>

\* scrapeProxies, lines 114-124: the GET fails or answers a status
ScrapeGet(s) ==
  /\ Streaming /\ scraper[s] = "get"
  /\ \E r \in HttpResults :
       scraper' = [scraper EXCEPT ![s] =
                   IF ~r.err /\ r.status = 200 THEN "scan" ELSE "done"]
  /\ UNCHANGED <<checkVars, checkerVars, prog, probed, dedup, mainpc, emitted, pending, scrapedProxiesChan, liveProxiesChan,
                 checkWorker, collector, outputFile, taken, checkedLive>>

\* scrapeProxies, lines 128-130: the next line of the body, trimmed; a non-empty
\* one is to be sent
ScrapeLine(s) ==
  /\ Streaming /\ scraper[s] = "scan"
  /\ emitted < MaxLines
  /\ \E raw \in RawLines :
       LET proxy == TrimSpace(raw) IN
         IF proxy # <<>>
         THEN /\ scraper' = [scraper EXCEPT ![s] = "send"]
              /\ pending' = [pending EXCEPT ![s] = proxy]
         ELSE UNCHANGED <<scraper, pending>>
  /\ emitted' = emitted + 1
  /\ UNCHANGED <<checkVars, checkerVars, prog, probed, dedup, mainpc, scrapedProxiesChan, liveProxiesChan,
                 checkWorker, collector, outputFile, taken, checkedLive>>

\* scrapeProxies, lines 131-132: proxiesChan <- proxy blocks while the buffer is full
ScrapeSend(s) ==
  /\ Streaming /\ scraper[s] = "send"
  /\ Len(scrapedProxiesChan.buf) < scrapedCap
  /\ scrapedProxiesChan' = [scrapedProxiesChan EXCEPT !.buf = Append(@, pending[s])]
  /\ scraper' = [scraper EXCEPT ![s] = "scan"]
  /\ pending' = [pending EXCEPT ![s] = <<>>]
  /\ UNCHANGED <<checkVars, checkerVars, prog, probed, dedup, mainpc, emitted, liveProxiesChan,
                 checkWorker, collector, outputFile, taken, checkedLive>>

\* scrapeProxies, lines 128, 136-141 and the deferred wg.Done: the body ends
ScrapeEnd(s) ==
  /\ Streaming /\ scraper[s] = "scan"
  /\ scraper' = [scraper EXCEPT ![s] = "done"]
  /\ UNCHANGED <<checkVars, checkerVars, prog, probed, dedup, mainpc, emitted, pending, scrapedProxiesChan, liveProxiesChan,
                 checkWorker, collector, outputFile, taken, checkedLive>>

\* wgScrapers.Wait(), line 89
ScrapersDoneEarly == TRUE
ScrapersDone == \A s \in StreamSources : scraper[s] = "done"

\* main, lines 89-92
MainCloseScraped ==
  /\ Streaming /\ mainpc = "waitScrapers"
  /\ ScrapersDone
  /\ scrapedProxiesChan' = [scrapedProxiesChan EXCEPT !.closed = TRUE]
  /\ mainpc' = "waitCheckers"
  /\ UNCHANGED <<checkVars, checkerVars, prog, probed, dedup, scraper, emitted, pending, liveProxiesChan, checkWorker, collector,
                 outputFile, taken, checkedLive>>

\* checkProxyWorker, line 149: receive the next candidate
WorkerRecv(w) ==
  /\ Streaming /\ checkWorker[w].pc = "recv"
  /\ scrapedProxiesChan.buf # <<>>
  /\ LET p == Head(scrapedProxiesChan.buf) IN
       /\ checkWorker' = [checkWorker EXCEPT ![w] = [pc |-> "check", addr |-> p]]
       /\ taken' = [taken EXCEPT ![p] = @ + 1]
  /\ scrapedProxiesChan' = [scrapedProxiesChan EXCEPT !.buf = Tail(@)]
  /\ UNCHANGED <<checkVars, checkerVars, prog, probed, dedup, mainpc, scraper, emitted, pending, liveProxiesChan, collector,
                 outputFile, checkedLive>>

\* checkProxyWorker, line 149 and the deferred wg.Done: the channel is closed and empty
WorkerExit(w) ==
  /\ Streaming /\ checkWorker[w].pc = "recv"
  /\ scrapedProxiesChan.buf = <<>> /\ scrapedProxiesChan.closed
  /\ checkWorker' = [checkWorker EXCEPT ![w] = [pc |-> "done", addr |-> <<>>]]
  /\ UNCHANGED <<checkVars, checkerVars, prog, probed, dedup, mainpc, scraper, emitted, pending, scrapedProxiesChan,
                 liveProxiesChan, collector, outputFile, taken, checkedLive>>

\* checkProxyWorker, lines 172-181: the GET gave a response with status 200
ProxyIsLiveAnyStatus(r) == ~r.err
ProxyIsLive(r) == ~r.err /\ r.status = 200

\* checkProxyWorker, lines 153-184: parse the address, GET checkURL through it
WorkerCheck(w) ==
  /\ Streaming /\ checkWorker[w].pc = "check"
  /\ IF ~UrlParseOK(checkWorker[w].addr)
     THEN /\ checkWorker' = [checkWorker EXCEPT ![w] = [pc |-> "recv", addr |-> <<>>]]
          /\ UNCHANGED checkedLive
     ELSE \E r \in HttpResults :
            /\ checkWorker' = [checkWorker EXCEPT ![w] =
                                 IF ProxyIsLive(r)
                                 THEN [@ EXCEPT !.pc = "send"]
                                 ELSE [pc |-> "recv", addr |-> <<>>]]
            /\ checkedLive' = IF ~r.err /\ r.status = 200
                              THEN checkedLive \cup {checkWorker[w].addr}
                              ELSE checkedLive
  /\ UNCHANGED <<checkVars, checkerVars, prog, probed, dedup, mainpc, scraper, emitted, pending, scrapedProxiesChan,
                 liveProxiesChan, collector, outputFile, taken>>

\* checkProxyWorker, line 183: liveProxiesChan <- proxyAddr
WorkerSend(w) ==
  /\ Streaming /\ checkWorker[w].pc = "send"
  /\ Len(liveProxiesChan.buf) < liveCap
  /\ liveProxiesChan' =
       [liveProxiesChan EXCEPT !.buf = Append(@, checkWorker[w].addr)]
  /\ checkWorker' = [checkWorker EXCEPT ![w] = [pc |-> "recv", addr |-> <<>>]]
  /\ UNCHANGED <<checkVars, checkerVars, prog, probed, dedup, mainpc, scraper, emitted, pending, scrapedProxiesChan, collector,
                 outputFile, taken, checkedLive>>

\* wgCheckers.Wait(), line 96
CheckersDoneEarly == TRUE
CheckersDoneNever == FALSE
CheckersDone == \A w \in WorkerIds : checkWorker[w].pc \in {"idle", "done"}

\* main, lines 96-99
MainCloseLive ==
  /\ Streaming /\ mainpc = "waitCheckers"
  /\ CheckersDone
  /\ liveProxiesChan' = [liveProxiesChan EXCEPT !.closed = TRUE]
  /\ mainpc' = "waitCollector"
  /\ UNCHANGED <<checkVars, checkerVars, prog, probed, dedup, scraper, emitted, pending, scrapedProxiesChan, checkWorker,
                 collector, outputFile, taken, checkedLive>>

\* collectAndSaveLiveProxies, lines 192-200: os.Create; log.Fatalf ends the process
CollectorCreate ==
  /\ Streaming /\ collector.pc = "create"
  /\ \/ /\ collector' = [collector EXCEPT !.pc = "loop"]
        /\ outputFile' = <<>>
        /\ UNCHANGED mainpc
     \/ /\ mainpc' = "exit"
        /\ UNCHANGED <<collector, outputFile>>
  /\ UNCHANGED <<checkVars, checkerVars, prog, probed, dedup, scraper, emitted, pending, scrapedProxiesChan, liveProxiesChan,
                 checkWorker, taken, checkedLive>>

\* collectAndSaveLiveProxies, lines 203-214: one live proxy; a bufio.Writer keeps
\* its first error and accepts nothing after it
CollectorRecv ==
  /\ Streaming /\ collector.pc = "loop"
  /\ liveProxiesChan.buf # <<>>
  /\ LET proxy == Head(liveProxiesChan.buf) IN
       IF proxy \in collector.uniqueProxies
       THEN UNCHANGED collector
       ELSE \E fails \in BOOLEAN :
              /\ collector.werr => fails
              /\ collector' =
                   [collector EXCEPT
                      !.uniqueProxies = @ \cup {proxy},
                      !.writer = IF fails THEN @ ELSE Append(@, proxy),
                      !.werr = fails,
                      !.count = IF fails THEN @ ELSE @ + 1]
  /\ liveProxiesChan' = [liveProxiesChan EXCEPT !.buf = Tail(@)]
  /\ UNCHANGED <<checkVars, checkerVars, prog, probed, dedup, mainpc, scraper, emitted, pending, scrapedProxiesChan, checkWorker,
                 outputFile, taken, checkedLive>>

\* what writer.Flush() leaves in the file: everything buffered, or, when the write
\* fails, a part of it; its error is not looked at (line 217)
FlushOutcomes(old, buffered) ==
  { [file |-> old \o buffered, failed |-> FALSE] }
  \cup { [file |-> old \o SubSeq(buffered, 1, k), failed |-> TRUE] :
           k \in 0..(Len(buffered) - 1) }

\* collectAndSaveLiveProxies, lines 203, 217-218 and the deferred wg.Done
CollectorFlush ==
  /\ Streaming /\ collector.pc = "loop"
  /\ liveProxiesChan.buf = <<>> /\ liveProxiesChan.closed
  /\ IF collector.werr
     THEN \* the writer keeps its error: Flush writes nothing more
          /\ \E k \in 0..Len(collector.writer) :
               outputFile' = outputFile \o SubSeq(collector.writer, 1, k)
          /\ collector' = [collector EXCEPT !.pc = "done"]
     ELSE \E o \in FlushOutcomes(outputFile, collector.writer) :
            /\ outputFile' = o.file
            /\ collector' = [collector EXCEPT !.pc = "done", !.werr = o.failed]
  /\ UNCHANGED <<checkVars, checkerVars, prog, probed, dedup, mainpc, scraper, emitted, pending, scrapedProxiesChan,
                 liveProxiesChan, checkWorker, taken, checkedLive>>

\* main, lines 103-105
MainFinish ==
  /\ Streaming /\ mainpc = "waitCollector"
  /\ collector.pc = "done"
  /\ mainpc' = "done"
  /\ UNCHANGED <<prog, probed, dedup, streamVars, checkerVars, checkVars>>

(***************************************************************************)
(* checkProxiesConcurrently and checkProxy of the first program of         *)
(* src/unnamed/part_001 ("collect") and of src/deep.go ("deep")            *)
(***************************************************************************)
\* The text of an address: a sequence of chunks with the chunk ":" between the
\* host and the port (deep.go line 36: ip+":"+port).
Addr(ip, port) == ip \o <<":">> \o port

IP1 == <<"1.2.3.4">>
IP2 == <<"5.6.7.8">>
Port1 == <<"8080">>
Port2 == <<"3128">>

\* deep.go: the table rows a source's page can hold, as the texts of the first
\* two cells; the text of a cell is taken as it is
DeepPages ==
  { << [ip |-> IP1, port |-> Port1], [ip |-> IP2, port |-> Port2] >>,
    << [ip |-> <<Blank>> \o IP1, port |-> Port1], [ip |-> <<>>, port |-> Port2],
       [ip |-> IP1, port |-> Port1] >> }

\* deep.go lines 30-39: the Parser of a source
RECURSIVE Parser(_)
Parser(rows) ==
  IF rows = <<>> THEN <<>>
  ELSE LET r == Head(rows) IN
         (IF r.ip # <<>> /\ r.port # <<>> THEN << Addr(r.ip, r.port) >> ELSE <<>>)
         \o Parser(Tail(rows))

\* part_001 (first program): the texts of the td cells a source's page can hold
CollectPages ==
  { << Addr(IP1, Port1), Addr(IP2, Port2) >>,
    << <<Blank>> \o Addr(IP1, Port1),
       <<"IP Address">>,
       Addr(IP1, Port1) \o <<Blank>> \o Addr(IP2, Port2),
       Addr(IP2, Port2) \o <<Blank, "elite">> >> }

\* part_001 line 97: ipPortRegex.MatchString(text), an address somewhere in the text
MatchString(text) ==
  \E k \in 1..(Len(text) - 2) :
    /\ text[k] \in {IP1[1], IP2[1]}
    /\ text[k + 1] = ":"
    /\ text[k + 2] \in {Port1[1], Port2[1]}

\* extractProxies, part_001 lines 96-106
RECURSIVE extractProxies(_)
extractProxies(cells) ==
  IF cells = <<>> THEN <<>>
  ELSE LET text == TrimSpace(Head(cells)) IN
         (IF MatchString(text) THEN <<text>> ELSE <<>>) \o extractProxies(Tail(cells))

\* len(strings.Split(proxy, ":")), part_001 line 113
SplitParts(proxy) == 1 + Cardinality({k \in 1..Len(proxy) : proxy[k] = ":"})

\* deduplicateProxies of part_001, lines 109-122
RECURSIVE CollectDedupFrom(_, _, _)
CollectDedupFrom(list, unique, result) ==
  IF list = <<>> THEN result
  ELSE LET proxy == Head(list) IN
         IF SplitParts(proxy) # 2
         THEN CollectDedupFrom(Tail(list), unique, result)
         ELSE IF proxy \notin unique
              THEN CollectDedupFrom(Tail(list), unique \cup {proxy}, Append(result, proxy))
              ELSE CollectDedupFrom(Tail(list), unique, result)

\* deduplicateProxies of deep.go, lines 199-209
DeepDedupKeepAll(list, unique, result) == result \o list
RECURSIVE DeepDedupFrom(_, _, _)
DeepDedupFrom(list, unique, result) ==
  IF list = <<>> THEN result
  ELSE LET proxy == Head(list) IN
         IF proxy \notin unique
         THEN DeepDedupFrom(Tail(list), unique \cup {proxy}, Append(result, proxy))
         ELSE DeepDedupFrom(Tail(list), unique, result)

deduplicateProxies(list) ==
  IF prog = "collect" THEN CollectDedupFrom(list, {}, <<>>)
  ELSE DeepDedupFrom(list, {}, <<>>)

\* the longest list checkProxiesConcurrently is handed in the model
MaxInput == 4
Slots == 1..MaxInput

\* number of targets checkProxy probes: part_001 lines 170-171, deep.go lines 258-262
CollectTargets == 2
DeepTargets == 3

NoCheck == [pc |-> "none", t |-> 0, successCount |-> 0, checks |-> <<>>,
            alive |-> FALSE, outcomes |-> <<>>]

CheckInit ==
  /\ proxies = <<>>
  /\ sem = 0
  /\ goroutine = [i \in Slots |-> NoCheck]
  /\ goodProxies = <<>>
  /\ resultsChan = [closed |-> FALSE]
  /\ appender = [pc |-> "none", proxy |-> <<>>]
  /\ mu = 0
  /\ returned = <<"none">>

\* checkWithClient: part_001 lines 176-184, deep.go lines 277-295
CheckWithClientAnyStatus(r) == ~r.err
CheckWithClient(r) == ~r.err /\ r.status >= 200 /\ r.status < 400

\* the capacity of sem blocks the send sem <- struct{}{}
SemFreeUnbounded == TRUE
SemFree == sem < maxConcurrentChecks

\* ---- collect ----
\* checkProxiesConcurrently, part_001 lines 125-151: the collector and one goroutine per proxy
CollectSpawn ==
  /\ prog = "collect" /\ mainpc = "check"
  /\ goroutine' = [i \in Slots |->
                     IF i <= Len(proxies) THEN [NoCheck EXCEPT !.pc = "acquire"]
                     ELSE NoCheck]
  /\ appender' = [pc |-> "recv", proxy |-> <<>>]
  /\ mainpc' = "wait"
  /\ UNCHANGED <<prog, probed, dedup, streamVars, checkerVars, proxies, sem, goodProxies, resultsChan, mu, returned>>

\* part_001 line 142: sem <- struct{}{}
CollectAcquire(i) ==
  /\ prog = "collect" /\ goroutine[i].pc = "acquire"
  /\ SemFree
  /\ sem' = sem + 1
  /\ goroutine' = [goroutine EXCEPT ![i].pc = "check", ![i].t = 1]
  /\ UNCHANGED <<prog, probed, dedup, mainpc, streamVars, checkerVars, proxies, goodProxies, resultsChan,
                 appender, mu, returned>>

\* checkProxy, part_001 line 173
CollectVerdict(checks) == checks[1] /\ checks[2]

\* checkProxy, part_001 lines 159-162: the address does not parse
CollectParseFail(i) ==
  /\ prog = "collect" /\ goroutine[i].pc = "check"
  /\ ~UrlParseOK(proxies[i])
  /\ goroutine' = [goroutine EXCEPT ![i].pc = "release", ![i].alive = FALSE]
  /\ UNCHANGED <<prog, probed, dedup, mainpc, streamVars, checkerVars, proxies, sem, goodProxies, resultsChan,
                 appender, mu, returned>>

\* checkProxy, part_001 lines 170-173: check1, then check2, then the verdict
CollectProbe(i) ==
  /\ prog = "collect" /\ goroutine[i].pc = "check"
  /\ UrlParseOK(proxies[i])
  /\ \E r \in HttpResults :
       LET g == goroutine[i]
           checks == Append(g.checks, CheckWithClient(r))
           outcomes == Append(g.outcomes,
                              [target |-> g.t, success |-> CheckWithClient(r)])
       IN  goroutine' = [goroutine EXCEPT ![i] =
             IF g.t < CollectTargets
             THEN [g EXCEPT !.t = g.t + 1, !.checks = checks, !.outcomes = outcomes]
             ELSE [g EXCEPT !.pc = IF CollectVerdict(checks) THEN "send" ELSE "release",
                            !.checks = checks, !.outcomes = outcomes,
                            !.alive = CollectVerdict(checks)]]
  /\ UNCHANGED <<prog, probed, dedup, mainpc, streamVars, checkerVars, proxies, sem, goodProxies, resultsChan,
                 appender, mu, returned>>

\* part_001 lines 144 and 132: results <- p meets the collector's receive
CollectSend(i) ==
  /\ prog = "collect" /\ goroutine[i].pc = "send"
  /\ appender.pc = "recv"
  /\ appender' = [pc |-> "append", proxy |-> proxies[i]]
  /\ goroutine' = [goroutine EXCEPT ![i].pc = "release"]
  /\ UNCHANGED <<prog, probed, dedup, mainpc, streamVars, checkerVars, proxies, sem, goodProxies, resultsChan,
                 mu, returned>>

\* part_001 line 149 and the deferred wg.Done: <-sem
CollectRelease(i) ==
  /\ prog = "collect" /\ goroutine[i].pc = "release"
  /\ sem' = sem - 1
  /\ goroutine' = [goroutine EXCEPT ![i] =
                     [NoCheck EXCEPT !.pc = "done", !.alive = goroutine[i].alive]]
  /\ UNCHANGED <<prog, probed, dedup, mainpc, streamVars, checkerVars, proxies, goodProxies, resultsChan,
                 appender, mu, returned>>

\* part_001 line 133: goodProxies = append(goodProxies, proxy)
AppenderAppend ==
  /\ prog = "collect" /\ appender.pc = "append"
  /\ goodProxies' = Append(goodProxies, appender.proxy)
  /\ appender' = [pc |-> "recv", proxy |-> <<>>]
  /\ UNCHANGED <<prog, probed, dedup, mainpc, streamVars, checkerVars, proxies, sem, goroutine, resultsChan,
                 mu, returned>>

\* part_001 line 132: the range loop ends on the closed channel
AppenderExit ==
  /\ prog = "collect" /\ appender.pc = "recv"
  /\ resultsChan.closed
  /\ appender' = [appender EXCEPT !.pc = "done"]
  /\ UNCHANGED <<prog, probed, dedup, mainpc, streamVars, checkerVars, proxies, sem, goroutine, goodProxies,
                 resultsChan, mu, returned>>

\* wg.Wait(): part_001 line 153, deep.go line 238
GoroutinesDoneEarly == TRUE
GoroutinesDone == \A i \in Slots : goroutine[i].pc \in {"none", "done"}

\* part_001 lines 153-154
CollectClose ==
  /\ prog = "collect" /\ mainpc = "wait"
  /\ GoroutinesDone
  /\ resultsChan' = [closed |-> TRUE]
  /\ mainpc' = "return"
  /\ UNCHANGED <<prog, probed, dedup, streamVars, checkerVars, proxies, sem, goroutine, goodProxies, appender,
                 mu, returned>>

\* part_001 line 155: return goodProxies, read without synchronisation with line 133
CollectReturn ==
  /\ prog = "collect" /\ mainpc = "return"
  /\ returned' = goodProxies
  /\ mainpc' = "returned"
  /\ UNCHANGED <<prog, probed, dedup, streamVars, checkerVars, proxies, sem, goroutine, goodProxies,
                 resultsChan, appender, mu>>

CollectNext ==
  \/ CollectSpawn
  \/ \E i \in Slots : \/ CollectAcquire(i) \/ CollectParseFail(i) \/ CollectProbe(i)
                       \/ CollectSend(i) \/ CollectRelease(i)
  \/ AppenderAppend
  \/ AppenderExit
  \/ CollectClose
  \/ CollectReturn

\* ---- deep ----
\* checkProxiesConcurrently, deep.go lines 212-236: one goroutine per proxy
DeepSpawn ==
  /\ prog = "deep" /\ mainpc = "check"
  /\ goroutine' = [i \in Slots |->
                     IF i <= Len(proxies) THEN [NoCheck EXCEPT !.pc = "acquire"]
                     ELSE NoCheck]
  /\ mainpc' = "wait"
  /\ UNCHANGED <<prog, probed, dedup, streamVars, checkerVars, proxies, sem, goodProxies, resultsChan, appender,
                 mu, returned>>

\* deep.go line 223: sem <- struct{}{}
DeepAcquire(i) ==
  /\ prog = "deep" /\ goroutine[i].pc = "acquire"
  /\ SemFree
  /\ sem' = sem + 1
  /\ goroutine' = [goroutine EXCEPT ![i].pc = "check", ![i].t = 1]
  /\ UNCHANGED <<prog, probed, dedup, mainpc, streamVars, checkerVars, proxies, goodProxies, resultsChan,
                 appender, mu, returned>>

\* checkProxy, deep.go line 274
DeepVerdictAnyOne(successCount) == successCount >= 1
DeepVerdict(successCount) == successCount >= 2

\* checkProxy, deep.go lines 243-246: the address does not parse
DeepParseFail(i) ==
  /\ prog = "deep" /\ goroutine[i].pc = "check"
  /\ ~UrlParseOK(proxies[i])
  /\ goroutine' = [goroutine EXCEPT ![i].pc = "release", ![i].alive = FALSE]
  /\ UNCHANGED <<prog, probed, dedup, mainpc, streamVars, checkerVars, proxies, sem, goodProxies, resultsChan,
                 appender, mu, returned>>

\* checkProxy, deep.go lines 264-274: the next target, and the verdict after the last
DeepProbeStopEarly(g) == g.t < DeepTargets /\ g.successCount < 2
DeepProbeMore(g) == g.t < DeepTargets

DeepProbe(i) ==
  /\ prog = "deep" /\ goroutine[i].pc = "check"
  /\ UrlParseOK(proxies[i])
  /\ \E r \in HttpResults :
       LET g == goroutine[i]
           n == IF CheckWithClient(r) THEN g.successCount + 1 ELSE g.successCount
           h == [g EXCEPT !.successCount = n,
                          !.outcomes = Append(@, [target |-> g.t,
                                                  success |-> CheckWithClient(r)])]
       IN  goroutine' = [goroutine EXCEPT ![i] =
             IF DeepProbeMore(h)
             THEN [h EXCEPT !.t = g.t + 1]
             ELSE [h EXCEPT !.pc = "release", !.alive = DeepVerdict(n)]]
  /\ UNCHANGED <<prog, probed, dedup, mainpc, streamVars, checkerVars, proxies, sem, goodProxies, resultsChan,
                 appender, mu, returned>>

\* deep.go lines 225-234: <-sem, then the branch on alive
DeepRelease(i) ==
  /\ prog = "deep" /\ goroutine[i].pc = "release"
  /\ sem' = sem - 1
  /\ goroutine' = [goroutine EXCEPT ![i] =
                     [NoCheck EXCEPT !.pc = IF goroutine[i].alive THEN "lock" ELSE "done",
                                     !.alive = goroutine[i].alive]]
  /\ UNCHANGED <<prog, probed, dedup, mainpc, streamVars, checkerVars, proxies, goodProxies, resultsChan,
                 appender, mu, returned>>

\* deep.go line 228: mu.Lock()
DeepLock(i) ==
  /\ prog = "deep" /\ goroutine[i].pc = "lock"
  /\ mu = 0
  /\ mu' = i
  /\ goroutine' = [goroutine EXCEPT ![i].pc = "append"]
  /\ UNCHANGED <<prog, probed, dedup, mainpc, streamVars, checkerVars, proxies, sem, goodProxies, resultsChan,
                 appender, returned>>

\* deep.go lines 229-231 and the deferred wg.Done: append, mu.Unlock()
DeepAppend(i) ==
  /\ prog = "deep" /\ goroutine[i].pc = "append"
  /\ goodProxies' = Append(goodProxies, proxies[i])
  /\ mu' = 0
  /\ goroutine' = [goroutine EXCEPT ![i].pc = "done"]
  /\ UNCHANGED <<prog, probed, dedup, mainpc, streamVars, checkerVars, proxies, sem, resultsChan, appender,
                 returned>>

\* deep.go lines 238-239: wg.Wait(); return goodProxies
DeepReturn ==
  /\ prog = "deep" /\ mainpc = "wait"
  /\ GoroutinesDone
  /\ returned' = goodProxies
  /\ mainpc' = "returned"
  /\ UNCHANGED <<prog, probed, dedup, streamVars, checkerVars, proxies, sem, goroutine, goodProxies,
                 resultsChan, appender, mu>>

DeepNext ==
  \/ DeepSpawn
  \/ \E i \in Slots : \/ DeepAcquire(i) \/ DeepParseFail(i) \/ DeepProbe(i)
                       \/ DeepRelease(i) \/ DeepLock(i) \/ DeepAppend(i)
  \/ DeepReturn

(***************************************************************************)
(* checker: the second program of src/unnamed/part_001 (ProxyChecker)      *)
(***************************************************************************)
CheckerSources == {"ProxyList-1", "ProxyList-2"}

\* A match of the pattern of parseProxies: the digits of the address and of the port.
T1 == [ip |-> <<1, 2, 3, 4>>, port |-> <<8, 0, 8, 0>>]
T2 == [ip |-> <<5, 6, 7, 8>>, port |-> <<3, 1, 2, 8>>]
T3 == [ip |-> <<9, 9, 9, 9>>, port |-> <<8, 0>>]
TBadIP == [ip |-> <<999, 9, 9, 9>>, port |-> <<8, 0>>]
TPortZero == [ip |-> <<9, 9, 9, 9>>, port |-> <<0>>]
TPortBig == [ip |-> <<9, 9, 9, 9>>, port |-> <<9, 9, 9, 9, 9>>]

\* the matches a source's body can hold
Bodies == { <<>>, <<T1, T1, T2>>, <<T3>>, <<TBadIP, T2, TPortZero>>, <<TPortBig>> }

\* isValidIP, part_001 lines 388-390: net.ParseIP of a dotted quad
isValidIP(ip) == Len(ip) = 4 /\ \A k \in 1..4 : ip[k] >= 0 /\ ip[k] <= 255

\* isValidPort, part_001 lines 392-403
isValidPort(port) ==
  /\ ~(Len(port) = 0 \/ Len(port) > 5)
  /\ \A k \in 1..Len(port) : ~(port[k] < 0 \/ port[k] > 9)

\* Proxy{IP, Port, Full}, part_001 lines 375-379; Full stands for the text ip:port
MakeProxy(m) == [IP |-> m.ip, Port |-> m.port, Full |-> <<m.ip, m.port>>]

\* parseProxies, part_001 lines 361-386
RECURSIVE parseProxies(_)
parseProxies(matches) ==
  IF matches = <<>> THEN <<>>
  ELSE LET m == Head(matches) IN
         (IF isValidIP(m.ip) /\ isValidPort(m.port) THEN <<MakeProxy(m)>> ELSE <<>>)
         \o parseProxies(Tail(matches))

\* removeDuplicateProxies, part_001 lines 405-417
RECURSIVE DedupFrom(_, _, _)
DedupFrom(list, seen, unique) ==
  IF list = <<>> THEN unique
  ELSE LET proxy == Head(list) IN
         IF proxy.Full \notin seen
         THEN DedupFrom(Tail(list), seen \cup {proxy.Full}, Append(unique, proxy))
         ELSE DedupFrom(Tail(list), seen, unique)

removeDuplicateProxiesKeepAll(list) == list
removeDuplicateProxies(list) == DedupFrom(list, {}, <<>>)

\* what client.Get can end with: a connection error, a timeout, or a status
FetchResults ==
  { [err |-> TRUE, why |-> "connection", status |-> 0],
    [err |-> TRUE, why |-> "timeout", status |-> 0] }
  \cup { [err |-> FALSE, why |-> "", status |-> c] : c \in {200, 404, 503} }

\* the loop bound of scrapeProxiesFromURL, part_001 line 333
MaxAttempts == 3

NoHarvest == [pc |-> "none", i |-> 0, err |-> FALSE, status |-> 0, attempts |-> 0,
              failures |-> 0, delays |-> <<>>, body |-> <<>>, proxies |-> <<>>,
              failed |-> FALSE]

\* what one probe of testProxyConnection can end with
ProbeResults ==
  { [err |-> TRUE, status |-> 0, readErr |-> FALSE, body |-> <<>>],
    [err |-> FALSE, status |-> 404, readErr |-> FALSE, body |-> <<"x">>],
    [err |-> FALSE, status |-> 302, readErr |-> FALSE, body |-> <<"x">>],
    [err |-> FALSE, status |-> 200, readErr |-> TRUE, body |-> <<>>],
    [err |-> FALSE, status |-> 200, readErr |-> FALSE, body |-> <<>>],
    [err |-> FALSE, status |-> 200, readErr |-> FALSE, body |-> <<Blank>>],
    [err |-> FALSE, status |-> 200, readErr |-> FALSE, body |-> <<Blank, "x">>] }

\* testProxyConnection, part_001 lines 506-524
testProxyConnection(r) ==
  /\ ~r.err
  /\ r.status = 200
  /\ ~r.readErr
  /\ Len(TrimSpace(r.body)) > 0

\* number of test URLs of ProxyChecker.checkProxy, part_001 lines 458-461
CheckerTargets == 2

\* ProxyChecker.checkProxy, part_001 line 472
CheckerVerdict(successCount) == successCount >= 1

PCWorkerIds == 0..maxWorkers
\* validateProxies, part_001 lines 423-426: the workers started
PCSpawned == 0..(maxWorkers - 1)

NoWorker == [pc |-> "none", t |-> 0, successCount |-> 0, alive |-> FALSE,
             proxy |-> <<>>, outcomes |-> <<>>]

\* what an earlier run left in an output file
OldFile == <<"stale">>
\* the same for good_proxies.txt, whose lines are sequences of chunks
OldGoodFile == << <<"stale">> >>

CheckerInit ==
  /\ harvester = [s \in CheckerSources |-> NoHarvest]
  /\ allProxies = <<>>
  /\ scrapeMu = ""
  /\ uniqueProxies = <<>>
  /\ jobs = [buf |-> <<>>, closed |-> FALSE, next |-> 0]
  /\ pcWorker = [w \in PCWorkerIds |-> NoWorker]
  /\ pcMu = -1
  /\ validProxies = <<>>
  /\ invalidProxies = <<>>
  /\ files \in (CASE prog = "checker" ->
                       { [valid |-> v, invalid |-> OldFile, good |-> <<>>] : v \in {<<>>, OldFile} }
                  [] prog \in {"collect", "deep"} ->
                       { [valid |-> <<>>, invalid |-> <<>>, good |-> g] : g \in {<<>>, OldGoodFile} }
                  [] OTHER -> { [valid |-> <<>>, invalid |-> <<>>, good |-> <<>>] })
  /\ saveErr = [valid |-> "none", invalid |-> "none", good |-> "none"]
  /\ sinkFailure = [valid |-> FALSE, invalid |-> FALSE, good |-> FALSE]
  /\ stub = TRUE

Checking == prog = "checker" /\ mainpc # "exit"

\* scrapeAllProxies, part_001 lines 291-317: one goroutine per source
ScrapeAllStart ==
  /\ Checking /\ mainpc = "start"
  /\ harvester' = [s \in CheckerSources |-> [NoHarvest EXCEPT !.pc = "get"]]
  /\ mainpc' = "waitScrape"
  /\ UNCHANGED <<prog, probed, dedup, streamVars, checkVars, allProxies, scrapeMu, uniqueProxies, jobs,
                 pcWorker, pcMu, validProxies, invalidProxies, files, saveErr, sinkFailure, stub>>

\* scrapeProxiesFromURL, part_001 lines 333-340: one attempt
FetchAttempt(s) ==
  /\ Checking /\ harvester[s].pc = "get"
  /\ \E r \in FetchResults :
       LET h == harvester[s]
           ok == ~r.err /\ r.status = 200
       IN  harvester' = [harvester EXCEPT ![s] =
             [h EXCEPT !.err = r.err, !.status = r.status,
                       !.attempts = h.attempts + 1,
                       !.failures = IF ok THEN h.failures ELSE h.failures + 1,
                       !.pc = IF ok THEN "after" ELSE "sleep"]]
  /\ UNCHANGED <<prog, probed, dedup, mainpc, streamVars, checkVars, allProxies, scrapeMu, uniqueProxies,
                 jobs, pcWorker, pcMu, validProxies, invalidProxies, files, saveErr, sinkFailure, stub>>

\* the backoff of attempt i (0-based), part_001 line 341, in seconds
Backoff(i) == i + 1

\* scrapeProxiesFromURL, part_001 lines 341 and 333: time.Sleep, i++, the loop test
FetchSleep(s) ==
  /\ Checking /\ harvester[s].pc = "sleep"
  /\ LET h == harvester[s] IN
       harvester' = [harvester EXCEPT ![s] =
         [h EXCEPT !.delays = Append(h.delays, Backoff(h.i)),
                   !.i = h.i + 1,
                   !.pc = IF h.i + 1 < MaxAttempts THEN "get" ELSE "after"]]
  /\ UNCHANGED <<prog, probed, dedup, mainpc, streamVars, checkVars, allProxies, scrapeMu, uniqueProxies,
                 jobs, pcWorker, pcMu, validProxies, invalidProxies, files, saveErr, sinkFailure, stub>>

\* scrapeProxiesFromURL, part_001 lines 344-358: the errors, io.ReadAll, parseProxies
FetchFinish(s) ==
  /\ Checking /\ harvester[s].pc = "after"
  /\ LET h == harvester[s] IN
       IF h.err \/ h.status # 200
       THEN harvester' = [harvester EXCEPT ![s] = [h EXCEPT !.pc = "ret", !.failed = TRUE]]
       ELSE \/ harvester' = [harvester EXCEPT ![s] = [h EXCEPT !.pc = "ret", !.failed = TRUE]]
            \/ \E body \in Bodies :
                 harvester' = [harvester EXCEPT ![s] =
                   [h EXCEPT !.pc = "ret", !.body = body,
                             !.proxies = parseProxies(body)]]
  /\ UNCHANGED <<prog, probed, dedup, mainpc, streamVars, checkVars, allProxies, scrapeMu, uniqueProxies,
                 jobs, pcWorker, pcMu, validProxies, invalidProxies, files, saveErr, sinkFailure, stub>>

\* scrapeAllProxies, part_001 lines 305-311: the error is logged, or mu.Lock()
HarvestLock(s) ==
  /\ Checking /\ harvester[s].pc = "ret"
  /\ IF harvester[s].failed
     THEN /\ harvester' = [harvester EXCEPT ![s].pc = "done"]
          /\ UNCHANGED scrapeMu
     ELSE /\ scrapeMu = ""
          /\ scrapeMu' = s
          /\ harvester' = [harvester EXCEPT ![s].pc = "append"]
  /\ UNCHANGED <<prog, probed, dedup, mainpc, streamVars, checkVars, allProxies, uniqueProxies,
                 jobs, pcWorker, pcMu, validProxies, invalidProxies, files, saveErr, sinkFailure, stub>>

\* scrapeAllProxies, part_001 lines 312-315 and the deferred wg.Done
HarvestAppend(s) ==
  /\ Checking /\ harvester[s].pc = "append"
  /\ allProxies' = allProxies \o harvester[s].proxies
  /\ scrapeMu' = ""
  /\ harvester' = [harvester EXCEPT ![s].pc = "done"]
  /\ UNCHANGED <<prog, probed, dedup, mainpc, streamVars, checkVars, uniqueProxies,
                 jobs, pcWorker, pcMu, validProxies, invalidProxies, files, saveErr, sinkFailure, stub>>

\* wg.Wait(), part_001 line 319 (deep.go line 135)
HarvestersDoneEarly == TRUE
HarvestersDone == \A s \in CheckerSources : harvester[s].pc = "done"

\* scrapeAllProxies, part_001 lines 319-323
ScrapeAllDedup ==
  /\ Checking /\ mainpc = "waitScrape"
  /\ HarvestersDone
  /\ uniqueProxies' = removeDuplicateProxies(allProxies)
  /\ mainpc' = "deduped"
  /\ UNCHANGED <<prog, probed, dedup, streamVars, checkVars, harvester, allProxies, scrapeMu,
                 jobs, pcWorker, pcMu, validProxies, invalidProxies, files, saveErr, sinkFailure, stub>>

\* part_001 lines 325 and 257-260: scrapeAllProxies returns; log.Fatal on an empty list
MainCheckEmpty ==
  /\ Checking /\ mainpc = "deduped"
  /\ mainpc' = IF Len(uniqueProxies) = 0 THEN "exit" ELSE "validate"
  /\ harvester' = [s \in CheckerSources |-> NoHarvest]
  /\ allProxies' = <<>>
  /\ UNCHANGED <<prog, probed, dedup, streamVars, checkVars, scrapeMu, uniqueProxies,
                 jobs, pcWorker, pcMu, validProxies, invalidProxies, files, saveErr, sinkFailure, stub>>

\* validateProxies, part_001 lines 420-426: make the channel, start the workers
ValidateStart ==
  /\ Checking /\ mainpc = "validate"
  /\ pcWorker' = [w \in PCWorkerIds |->
                    IF w \in PCSpawned THEN [NoWorker EXCEPT !.pc = "recv"] ELSE NoWorker]
  /\ jobs' = [buf |-> <<>>, closed |-> FALSE, next |-> 1]
  /\ mainpc' = "send"
  /\ UNCHANGED <<prog, probed, dedup, streamVars, checkVars, harvester, allProxies, scrapeMu,
                 uniqueProxies, pcMu, validProxies, invalidProxies, files, saveErr, sinkFailure, stub>>

\* validateProxies, part_001 lines 429-431: jobs <- proxy
ValidateSend ==
  /\ Checking /\ mainpc = "send"
  /\ jobs.next <= Len(uniqueProxies)
  /\ Len(jobs.buf) < Len(uniqueProxies)
  /\ jobs' = [jobs EXCEPT !.buf = Append(@, uniqueProxies[jobs.next]), !.next = @ + 1]
  /\ UNCHANGED <<prog, probed, dedup, mainpc, streamVars, checkVars, harvester, allProxies, scrapeMu,
                 uniqueProxies, pcWorker, pcMu, validProxies, invalidProxies, files,
                 saveErr, sinkFailure, stub>>

\* validateProxies, part_001 line 432: close(jobs)
ValidateClose ==
  /\ Checking /\ mainpc = "send"
  /\ jobs.next > Len(uniqueProxies)
  /\ jobs' = [jobs EXCEPT !.closed = TRUE]
  /\ mainpc' = "waitWorkers"
  /\ UNCHANGED <<prog, probed, dedup, streamVars, checkVars, harvester, allProxies, scrapeMu,
                 uniqueProxies, pcWorker, pcMu, validProxies, invalidProxies, files,
                 saveErr, sinkFailure, stub>>

\* ProxyChecker.worker, part_001 line 441: the next job
PCWorkerRecv(w) ==
  /\ Checking /\ pcWorker[w].pc = "recv"
  /\ jobs.buf # <<>>
  /\ pcWorker' = [pcWorker EXCEPT ![w] =
                    [NoWorker EXCEPT !.pc = "probe", !.t = 1, !.proxy = Head(jobs.buf)]]
  /\ jobs' = [jobs EXCEPT !.buf = Tail(@)]
  /\ UNCHANGED <<prog, probed, dedup, mainpc, streamVars, checkVars, harvester, allProxies, scrapeMu,
                 uniqueProxies, pcMu, validProxies, invalidProxies, files, saveErr, sinkFailure, stub>>

\* ProxyChecker.worker, part_001 line 441 and the deferred wg.Done
PCWorkerExit(w) ==
  /\ Checking /\ pcWorker[w].pc = "recv"
  /\ jobs.buf = <<>> /\ jobs.closed
  /\ pcWorker' = [pcWorker EXCEPT ![w] = [NoWorker EXCEPT !.pc = "done"]]
  /\ UNCHANGED <<prog, probed, dedup, mainpc, streamVars, checkVars, harvester, allProxies, scrapeMu,
                 uniqueProxies, jobs, pcMu, validProxies, invalidProxies, files,
                 saveErr, sinkFailure, stub>>

\* ProxyChecker.checkProxy, part_001 lines 463-472: the next test URL, the verdict after the last
PCWorkerProbe(w) ==
  /\ Checking /\ pcWorker[w].pc = "probe"
  /\ \E r \in ProbeResults :
       LET g == pcWorker[w]
           ok == testProxyConnection(r)
           n == IF ok THEN g.successCount + 1 ELSE g.successCount
           h == [g EXCEPT !.successCount = n,
                          !.outcomes = Append(@, [target |-> g.t, success |-> ok])]
       IN  /\ pcWorker' = [pcWorker EXCEPT ![w] =
                 IF g.t < CheckerTargets
                 THEN [h EXCEPT !.t = g.t + 1]
                 ELSE [h EXCEPT !.pc = "lock", !.alive = CheckerVerdict(n)]]
           /\ stub' = (stub /\ (ok <=> g.proxy = MakeProxy(T1)))
  /\ UNCHANGED <<prog, probed, dedup, mainpc, streamVars, checkVars, harvester, allProxies, scrapeMu,
                 uniqueProxies, jobs, pcMu, validProxies, invalidProxies, files, saveErr, sinkFailure>>

\* ProxyChecker.worker, part_001 lines 443 and 448: pc.mu.Lock()
PCWorkerLock(w) ==
  /\ Checking /\ pcWorker[w].pc = "lock"
  /\ pcMu = -1
  /\ pcMu' = w
  /\ pcWorker' = [pcWorker EXCEPT ![w].pc = "append"]
  /\ UNCHANGED <<prog, probed, dedup, mainpc, streamVars, checkVars, harvester, allProxies, scrapeMu,
                 uniqueProxies, jobs, validProxies, invalidProxies, files, saveErr, sinkFailure, stub>>

\* ProxyChecker.worker, part_001 lines 444-445 and 449-450: append, pc.mu.Unlock()
PCWorkerAppend(w) ==
  /\ Checking /\ pcWorker[w].pc = "append"
  /\ IF pcWorker[w].alive
     THEN /\ validProxies' = Append(validProxies, pcWorker[w].proxy)
          /\ UNCHANGED invalidProxies
     ELSE /\ invalidProxies' = Append(invalidProxies, pcWorker[w].proxy)
          /\ UNCHANGED validProxies
  /\ pcMu' = -1
  /\ pcWorker' = [pcWorker EXCEPT ![w] = [NoWorker EXCEPT !.pc = "recv"]]
  /\ UNCHANGED <<prog, probed, dedup, mainpc, streamVars, checkVars, harvester, allProxies, scrapeMu,
                 uniqueProxies, jobs, files, saveErr, sinkFailure, stub>>

\* pc.wg.Wait(), part_001 line 435
PCWorkersDoneEarly == TRUE
PCWorkersDone == \A w \in PCWorkerIds : pcWorker[w].pc \in {"none", "done"}

\* validateProxies, part_001 line 435: it returns to main
ValidateReturn ==
  /\ Checking /\ mainpc = "waitWorkers"
  /\ PCWorkersDone
  /\ mainpc' = "saveValid"
  /\ UNCHANGED <<prog, probed, dedup, streamVars, checkVars, checkerVars>>

\* the lines saveProxiesToFile writes, part_001 lines 537-538
RECURSIVE FileLines(_)
FileLines(list) == IF list = <<>> THEN <<>> ELSE <<Head(list).Full>> \o FileLines(Tail(list))

\* saveProxiesToFile, part_001 lines 527-545: what it leaves in the file and returns.
\* os.Create fails and the file is untouched; a WriteString fails and a prefix is
\* written; the deferred writer.Flush() fails, a prefix is written and nil is
\* returned (line 535 drops the error); or all lines are written.
SaveOutcomes(list, old) ==
  { [file |-> old, err |-> "create", failed |-> TRUE] }
  \cup { [file |-> SubSeq(FileLines(list), 1, k), err |-> "write", failed |-> TRUE] :
           k \in 0..(Len(list) - 1) }
  \cup { [file |-> SubSeq(FileLines(list), 1, k), err |-> "nil", failed |-> TRUE] :
           k \in 0..(Len(list) - 1) }
  \cup { [file |-> FileLines(list), err |-> "nil", failed |-> FALSE] }

\* main, part_001 lines 270-273
MainSaveValid ==
  /\ Checking /\ mainpc = "saveValid"
  /\ \E o \in SaveOutcomes(validProxies, files.valid) :
       /\ files' = [files EXCEPT !.valid = o.file]
       /\ saveErr' = [saveErr EXCEPT !.valid = o.err]
       /\ sinkFailure' = [sinkFailure EXCEPT !.valid = o.failed]
  /\ mainpc' = "saveInvalid"
  /\ UNCHANGED <<prog, probed, dedup, streamVars, checkVars, harvester, allProxies, scrapeMu,
                 uniqueProxies, jobs, pcWorker, pcMu, validProxies, invalidProxies, stub>>

\* main, part_001 lines 275-287
MainSaveInvalid ==
  /\ Checking /\ mainpc = "saveInvalid"
  /\ \E o \in SaveOutcomes(invalidProxies, files.invalid) :
       /\ files' = [files EXCEPT !.invalid = o.file]
       /\ saveErr' = [saveErr EXCEPT !.invalid = o.err]
       /\ sinkFailure' = [sinkFailure EXCEPT !.invalid = o.failed]
  /\ mainpc' = "done"
  /\ UNCHANGED <<prog, probed, dedup, streamVars, checkVars, harvester, allProxies, scrapeMu,
                 uniqueProxies, jobs, pcWorker, pcMu, validProxies, invalidProxies, stub>>

(***************************************************************************)
(* main, scrapeAllProxies and saveProxiesToFile of the first program of    *)
(* src/unnamed/part_001 ("collect") and of src/deep.go ("deep").  The two  *)
(* scrapeAllProxies are the same text; they use the variables harvester,   *)
(* allProxies and scrapeMu, and the file good_proxies.txt is files.good.   *)
(***************************************************************************)
Batching == prog \in {"collect", "deep"} /\ mainpc # "exit"

\* everything but the variables scrapeAllProxies works on
batchFrame == <<prog, probed, dedup, streamVars, checkVars, uniqueProxies, jobs, pcWorker, pcMu,
                validProxies, invalidProxies, files, saveErr, sinkFailure, stub>>

\* scrapeAllProxies, deep.go lines 116-134 (part_001 lines 52-67): one goroutine per source
BatchScrapeStart ==
  /\ Batching /\ mainpc = "start"
  /\ harvester' = [s \in CheckerSources |-> [NoHarvest EXCEPT !.pc = "get"]]
  /\ mainpc' = "waitScrape"
  /\ UNCHANGED <<batchFrame, allProxies, scrapeMu>>

\* what scrapeProxies returns for a page: deep.go line 172, part_001 line 87
Scraped(page) == IF prog = "collect" THEN extractProxies(page) ELSE Parser(page)

\* scrapeProxies, deep.go lines 139-173 (part_001 lines 72-88): one request; an
\* error, a status other than 200 or an unreadable document is returned as an error
BatchFetch(s) ==
  /\ Batching /\ harvester[s].pc = "get"
  /\ \E r \in HttpResults :
       LET h == [harvester[s] EXCEPT !.err = r.err, !.status = r.status, !.attempts = 1]
       IN  IF r.err \/ r.status # 200
           THEN harvester' = [harvester EXCEPT ![s] =
                                [h EXCEPT !.pc = "ret", !.failed = TRUE, !.failures = 1]]
           ELSE \/ harvester' = [harvester EXCEPT ![s] =
                                   [h EXCEPT !.pc = "ret", !.failed = TRUE]]
                \/ \E page \in (IF prog = "collect" THEN CollectPages ELSE DeepPages) :
                     harvester' = [harvester EXCEPT ![s] =
                                     [h EXCEPT !.pc = "ret", !.body = page,
                                               !.proxies = Scraped(page)]]
  /\ UNCHANGED <<batchFrame, mainpc, allProxies, scrapeMu>>

\* scrapeAllProxies, deep.go lines 123-129 (part_001 lines 56-62): the error is
\* logged and the goroutine returns, or mu.Lock()
BatchLock(s) ==
  /\ Batching /\ harvester[s].pc = "ret"
  /\ IF harvester[s].failed
     THEN /\ harvester' = [harvester EXCEPT ![s].pc = "done"]
          /\ UNCHANGED scrapeMu
     ELSE /\ scrapeMu = ""
          /\ scrapeMu' = s
          /\ harvester' = [harvester EXCEPT ![s].pc = "append"]
  /\ UNCHANGED <<batchFrame, mainpc, allProxies>>

\* scrapeAllProxies, deep.go lines 130-132 (part_001 lines 63-65) and the deferred wg.Done
BatchAppend(s) ==
  /\ Batching /\ harvester[s].pc = "append"
  /\ allProxies' = allProxies \o harvester[s].proxies
  /\ scrapeMu' = ""
  /\ harvester' = [harvester EXCEPT ![s].pc = "done"]
  /\ UNCHANGED <<batchFrame, mainpc>>

\* scrapeAllProxies, deep.go lines 135-136 (part_001 lines 68-69): wg.Wait(), deduplicateProxies
BatchDedup ==
  /\ Batching /\ mainpc = "waitScrape"
  /\ HarvestersDone
  /\ proxies' = deduplicateProxies(allProxies)
  /\ mainpc' = "deduped"
  /\ UNCHANGED <<prog, probed, dedup, streamVars, checkerVars, sem, goroutine, goodProxies, resultsChan,
                 appender, mu, returned>>

\* main of deep.go, lines 95-103: it returns when nothing was collected
DeepMainCheck ==
  /\ prog = "deep" /\ mainpc = "deduped"
  /\ mainpc' = IF Len(proxies) = 0 THEN "done" ELSE "check"
  /\ harvester' = [s \in CheckerSources |-> NoHarvest]
  /\ allProxies' = <<>>
  /\ UNCHANGED <<batchFrame, scrapeMu>>

\* main of part_001 (first program), lines 36-40: no test of the length
CollectMainCheck ==
  /\ prog = "collect" /\ mainpc = "deduped"
  /\ mainpc' = "check"
  /\ harvester' = [s \in CheckerSources |-> NoHarvest]
  /\ allProxies' = <<>>
  /\ UNCHANGED <<batchFrame, scrapeMu>>

\* os.WriteFile(filename, content, 0644): the file cannot be opened and is
\* untouched; a write fails after the truncation; or the content is written
WriteFileOutcomes(lines, old) ==
  { [file |-> old, failed |-> TRUE] }
  \cup { [file |-> SubSeq(lines, 1, k), failed |-> TRUE] : k \in 0..(Len(lines) - 1) }
  \cup { [file |-> lines, failed |-> FALSE] }

\* main lines 43-44 and saveProxiesToFile of part_001 (first program), lines 186-192:
\* log.Fatalf ends the process when os.WriteFile fails
CollectSave ==
  /\ prog = "collect" /\ mainpc = "returned"
  /\ \E o \in WriteFileOutcomes(returned, files.good) :
       /\ files' = [files EXCEPT !.good = o.file]
       /\ saveErr' = [saveErr EXCEPT !.good = IF o.failed THEN "fatal" ELSE "void"]
       /\ sinkFailure' = [sinkFailure EXCEPT !.good = o.failed]
       /\ mainpc' = IF o.failed THEN "exit" ELSE "done"
  /\ UNCHANGED <<prog, probed, dedup, streamVars, checkVars, harvester, allProxies, scrapeMu,
                 uniqueProxies, jobs, pcWorker, pcMu, validProxies, invalidProxies, stub>>

\* main lines 107-108 and saveProxiesToFile of deep.go, lines 297-308: nothing is
\* written for an empty list; a failure of os.WriteFile is logged; nothing is returned
DeepSave ==
  /\ prog = "deep" /\ mainpc = "returned"
  /\ IF Len(returned) = 0
     THEN UNCHANGED <<files, sinkFailure>>
     ELSE \E o \in WriteFileOutcomes(returned, files.good) :
            /\ files' = [files EXCEPT !.good = o.file]
            /\ sinkFailure' = [sinkFailure EXCEPT !.good = o.failed]
  /\ saveErr' = [saveErr EXCEPT !.good = "void"]
  /\ mainpc' = "done"
  /\ UNCHANGED <<prog, probed, dedup, streamVars, checkVars, harvester, allProxies, scrapeMu,
                 uniqueProxies, jobs, pcWorker, pcMu, validProxies, invalidProxies, stub>>

BatchNext ==
  \/ BatchScrapeStart
  \/ \E s \in CheckerSources : BatchFetch(s) \/ BatchLock(s) \/ BatchAppend(s)
  \/ BatchDedup
  \/ DeepMainCheck
  \/ CollectMainCheck
  \/ CollectSave
  \/ DeepSave

CheckerNext ==
  \/ ScrapeAllStart
  \/ \E s \in CheckerSources : \/ FetchAttempt(s) \/ FetchSleep(s) \/ FetchFinish(s)
                               \/ HarvestLock(s) \/ HarvestAppend(s)
  \/ ScrapeAllDedup
  \/ MainCheckEmpty
  \/ ValidateStart
  \/ ValidateSend
  \/ ValidateClose
  \/ \E w \in PCWorkerIds : \/ PCWorkerRecv(w) \/ PCWorkerExit(w) \/ PCWorkerProbe(w)
                            \/ PCWorkerLock(w) \/ PCWorkerAppend(w)
  \/ ValidateReturn
  \/ MainSaveValid
  \/ MainSaveInvalid

StreamNext ==
  \/ MainStart
  \/ \E s \in StreamSources : ScrapeGet(s) \/ ScrapeLine(s) \/ ScrapeSend(s) \/ ScrapeEnd(s)
  \/ MainCloseScraped
  \/ \E w \in WorkerIds : WorkerRecv(w) \/ WorkerExit(w) \/ WorkerCheck(w) \/ WorkerSend(w)
  \/ MainCloseLive
  \/ CollectorCreate
  \/ CollectorRecv
  \/ CollectorFlush
  \/ MainFinish

\* no list has been handed to deduplicateProxies
NoDedup == [input |-> <<>>, output |-> <<>>, again |-> <<>>]

\* no response has been handed to the probe functions
NoProbe == [http |-> [err |-> TRUE, status |-> 0],
            conn |-> [err |-> TRUE, status |-> 0, readErr |-> FALSE, body |-> <<>>],
            applied |-> {},
            ok |-> [checkWithClient |-> FALSE, checkProxyWorker |-> FALSE,
                    testProxyConnection |-> FALSE]]

Init ==
  /\ prog \in {"stream", "collect", "deep", "checker"}
  /\ mainpc = "start"
  /\ probed = NoProbe
  /\ dedup = NoDedup
  /\ StreamInit
  /\ CheckInit
  /\ CheckerInit

Next == StreamNext \/ BatchNext \/ CollectNext \/ DeepNext \/ CheckerNext

Spec == Init /\ [][Next]_vars

(***************************************************************************)
(* The streaming pipeline under fair scheduling: the Go scheduler runs     *)
(* every goroutine that can take a step, and every request returns (each   *)
(* has a timeout), so no goroutine that is able to step waits forever.     *)
(* A goroutine blocked on a channel can take no step.                      *)
(***************************************************************************)
StreamOnlyInit == Init /\ prog = "stream"

StreamFairness ==
  /\ WF_vars(MainStart \/ MainCloseScraped \/ MainCloseLive \/ MainFinish)
  /\ \A s \in StreamSources :
       WF_vars(ScrapeGet(s) \/ ScrapeLine(s) \/ ScrapeSend(s) \/ ScrapeEnd(s))
  /\ \A w \in WorkerIds :
       WF_vars(WorkerRecv(w) \/ WorkerExit(w) \/ WorkerCheck(w) \/ WorkerSend(w))
  /\ WF_vars(CollectorCreate \/ CollectorRecv \/ CollectorFlush)

StreamFairSpec == StreamOnlyInit /\ [][StreamNext]_vars /\ StreamFairness

(***************************************************************************)
(* The probe functions on their own: one response of each kind is handed   *)
(* to checkWithClient, to the test of checkProxyWorker and to              *)
(* testProxyConnection.                                                    *)
(***************************************************************************)
ProbeInit ==
  /\ prog = "probe"
  /\ mainpc = "start"
  /\ probed \in { [NoProbe EXCEPT !.http = r, !.conn = q] :
                     r \in HttpResults, q \in ProbeResults }
  /\ dedup = NoDedup
  /\ StreamInit
  /\ CheckInit
  /\ CheckerInit

\* checkWithClient, deep.go lines 288-294 (part_001 lines 177-183)
ProbeCheckWithClient ==
  /\ prog = "probe" /\ "checkWithClient" \notin probed.applied
  /\ probed' = [probed EXCEPT !.applied = @ \cup {"checkWithClient"},
                              !.ok.checkWithClient = CheckWithClient(probed.http)]
  /\ UNCHANGED <<prog, mainpc, dedup, streamVars, checkVars, checkerVars>>

\* checkProxyWorker, part_000 lines 172-184
ProbeCheckProxyWorker ==
  /\ prog = "probe" /\ "checkProxyWorker" \notin probed.applied
  /\ probed' = [probed EXCEPT !.applied = @ \cup {"checkProxyWorker"},
                              !.ok.checkProxyWorker = ProxyIsLive(probed.http)]
  /\ UNCHANGED <<prog, mainpc, dedup, streamVars, checkVars, checkerVars>>

\* ProxyChecker.testProxyConnection, part_001 lines 506-524
ProbeTestProxyConnection ==
  /\ prog = "probe" /\ "testProxyConnection" \notin probed.applied
  /\ probed' = [probed EXCEPT !.applied = @ \cup {"testProxyConnection"},
                              !.ok.testProxyConnection = testProxyConnection(probed.conn)]
  /\ UNCHANGED <<prog, mainpc, dedup, streamVars, checkVars, checkerVars>>

ProbeNext == ProbeCheckWithClient \/ ProbeCheckProxyWorker \/ ProbeTestProxyConnection

ProbeSpec == ProbeInit /\ [][ProbeNext]_vars

(***************************************************************************)
(* deduplicateProxies of deep.go on its own: a list of scraped strings,    *)
(* with repetitions, is handed to it, and its result is handed to it again *)
(***************************************************************************)
\* the longest list handed to deduplicateProxies
MaxList == 4

\* what the parsers of deep.go yield: addresses, with or without the blanks
\* of the table cell, and a string that is no address
DedupTokens == { Addr(IP1, Port1), <<Blank>> \o Addr(IP1, Port1), Addr(IP2, Port2),
                 <<"IP Address", ":", "Port">> }

DedupInputs == UNION { [1..k -> DedupTokens] : k \in 0..MaxList }

DedupInit ==
  /\ prog = "dedup"
  /\ mainpc = "start"
  /\ probed = NoProbe
  /\ dedup \in { [NoDedup EXCEPT !.input = list] : list \in DedupInputs }
  /\ StreamInit
  /\ CheckInit
  /\ CheckerInit

\* deduplicateProxies, deep.go lines 199-209, on the list
DedupApply ==
  /\ prog = "dedup" /\ mainpc = "start"
  /\ dedup' = [dedup EXCEPT !.output = DeepDedupFrom(dedup.input, {}, <<>>)]
  /\ mainpc' = "applied"
  /\ UNCHANGED <<prog, probed, streamVars, checkVars, checkerVars>>

\* deduplicateProxies, deep.go lines 199-209, on its own result
DedupApplyAgain ==
  /\ prog = "dedup" /\ mainpc = "applied"
  /\ dedup' = [dedup EXCEPT !.again = DeepDedupFrom(dedup.output, {}, <<>>)]
  /\ mainpc' = "reapplied"
  /\ UNCHANGED <<prog, probed, streamVars, checkVars, checkerVars>>

DedupNext == DedupApply \/ DedupApplyAgain

DedupSpec == DedupInit /\ [][DedupNext]_vars

(***************************************************************************)
(* Properties                                                              *)
(***************************************************************************)
\* number of occurrences of x in the sequence seq
Count(seq, x) == Cardinality({k \in 1..Len(seq) : seq[k] = x})

\* number of successful probes among the recorded outcomes
NumSuccess(outcomes) == Cardinality({k \in 1..Len(outcomes) : outcomes[k].success})

\* the targets probed, in order
TargetsOf(outcomes) == [k \in 1..Len(outcomes) |-> outcomes[k].target]

\* C1: two-phase shutdown of the streaming pipeline.  liveProxiesChan is closed
\* only when every scrapeProxies goroutine has returned, scrapedProxiesChan is
\* closed and empty, and every checkProxyWorker has returned; the collector
\* finishes only after liveProxiesChan is closed.
C1_TwoPhaseShutdown ==
  prog = "stream" =>
    /\ liveProxiesChan.closed =>
         /\ \A s \in StreamSources : scraper[s] = "done"
         /\ scrapedProxiesChan.closed
         /\ scrapedProxiesChan.buf = <<>>
         /\ \A w \in WorkerIds : checkWorker[w].pc \in {"idle", "done"}
    /\ collector.pc = "done" => liveProxiesChan.closed

\* a run in which a live proxy went through both channels and the collector finished
C1_Witness ==
  /\ prog = "stream" /\ mainpc = "done"
  /\ collector.pc = "done" /\ collector.count >= 1
  /\ liveProxiesChan.closed

\* C2: when checkProxiesConcurrently (part_001, first program) has returned, every
\* proxy whose checkProxy returned true is in the returned list exactly once, and
\* goodProxies gets no append after the return.
C2_NoVerdictLostOrLate ==
  (prog = "collect" /\ mainpc = "returned") =>
    /\ \A i \in 1..Len(proxies) : goroutine[i].alive => Count(returned, proxies[i]) = 1
    /\ goodProxies = returned

\* C3: backpressure bound.  The number of candidates whose probe is executing is at
\* most the pool size: maxConcurrentChecks under the semaphore, maxWorkers in
\* ProxyChecker, workerCount in the streaming pipeline.
C3_BackpressureBound ==
  /\ prog \in {"deep", "collect"} =>
       Cardinality({i \in Slots : goroutine[i].pc = "check"}) <= maxConcurrentChecks
  /\ prog = "checker" =>
       Cardinality({w \in PCWorkerIds : pcWorker[w].pc = "probe"}) <= maxWorkers
  /\ prog = "stream" =>
       Cardinality({w \in WorkerIds : checkWorker[w].pc = "check"}) <= workerCount

\* the semaphore is full while another candidate waits for it
C3_Witness ==
  /\ prog = "deep"
  /\ Cardinality({i \in Slots : goroutine[i].pc = "check"}) = maxConcurrentChecks
  /\ \E i \in Slots : goroutine[i].pc = "acquire"

\* C4: in the streaming pipeline an address is taken from the intake channel and
\* probed by a checkProxyWorker at most once.
C4_ProbedAtMostOnce ==
  prog = "stream" => \A l \in StreamLines : taken[l] <= 1

\* C5: partition completeness of ProxyChecker.  Once validateProxies has returned,
\* every proxy of its (duplicate-free) input is exactly once in validProxies or
\* invalidProxies, in one of them only, and the two lengths add up to the input's.
C5_PartitionComplete ==
  (prog = "checker" /\ mainpc \in {"saveValid", "saveInvalid", "done"}) =>
    /\ \A k \in 1..Len(uniqueProxies) :
         Count(validProxies, uniqueProxies[k]) + Count(invalidProxies, uniqueProxies[k]) = 1
    /\ Len(validProxies) + Len(invalidProxies) = Len(uniqueProxies)
    /\ \A a \in 1..Len(validProxies) : \A b \in 1..Len(invalidProxies) :
         validProxies[a].Full # invalidProxies[b].Full

\* three proxies were validated by the two workers, with both verdicts present
C5_Witness ==
  /\ prog = "checker" /\ mainpc = "saveValid"
  /\ Len(uniqueProxies) = 3
  /\ Len(validProxies) >= 1 /\ Len(invalidProxies) >= 1

\* C6: quorum rule.  When checkProxy has probed its K targets the verdict is Live
\* iff at least T probes succeeded: K = 3, T = 2 in deep.go and K = 2, T = 1 in
\* ProxyChecker.checkProxy.
C6_QuorumRule ==
  /\ prog = "deep" =>
       \A i \in Slots :
         (goroutine[i].pc = "release" /\ Len(goroutine[i].outcomes) = 3) =>
           (goroutine[i].alive <=> NumSuccess(goroutine[i].outcomes) >= 2)
  /\ prog = "checker" =>
       \A w \in PCWorkerIds :
         (pcWorker[w].pc \in {"lock", "append"} /\ Len(pcWorker[w].outcomes) = 2) =>
           (pcWorker[w].alive <=> NumSuccess(pcWorker[w].outcomes) >= 1)

\* deep.go: the outcomes success, failure, success gave the verdict Live
C6_Witness ==
  /\ prog = "deep"
  /\ \E i \in Slots :
       /\ goroutine[i].pc = "release" /\ goroutine[i].alive
       /\ Len(goroutine[i].outcomes) = 3
       /\ goroutine[i].outcomes[1].success
       /\ ~goroutine[i].outcomes[2].success
       /\ goroutine[i].outcomes[3].success

\* C7: probe independence.  For a candidate whose address parses, when the verdict
\* is computed each of the K targets has been probed exactly once, in order,
\* whatever the earlier outcomes were.
C7_ProbeIndependence ==
  /\ prog = "deep" =>
       \A i \in 1..Len(proxies) :
         (goroutine[i].pc = "release" /\ UrlParseOK(proxies[i])) =>
           TargetsOf(goroutine[i].outcomes) = <<1, 2, 3>>
  /\ prog = "collect" =>
       \A i \in 1..Len(proxies) :
         (goroutine[i].pc \in {"send", "release"} /\ UrlParseOK(proxies[i])) =>
           TargetsOf(goroutine[i].outcomes) = <<1, 2>>
  /\ prog = "checker" =>
       \A w \in PCWorkerIds :
         pcWorker[w].pc \in {"lock", "append"} =>
           TargetsOf(pcWorker[w].outcomes) = <<1, 2>>

\* deep.go: the first two probes had already decided the verdict and the third ran
C7_Witness ==
  /\ prog = "deep"
  /\ \E i \in Slots :
       /\ goroutine[i].pc = "release"
       /\ Len(goroutine[i].outcomes) = 3
       /\ goroutine[i].outcomes[1].success
       /\ goroutine[i].outcomes[2].success

\* the list [1.2.3.4:8080, 1.2.3.4:8080, 5.6.7.8:3128] of the end-to-end scenario
ScenarioYield == <<MakeProxy(T1), MakeProxy(T1), MakeProxy(T2)>>

\* C8: end-to-end scenario on ProxyChecker.  Two sources that each yield
\* ScenarioYield give two unique candidates; with every probe succeeding for
\* 1.2.3.4:8080 and failing for 5.6.7.8:3128 and both files written, the valid file
\* holds exactly 1.2.3.4:8080 and the invalid file exactly 5.6.7.8:3128.
C8_EndToEnd ==
  prog = "checker" =>
    /\ (/\ mainpc = "deduped"
        /\ \A s \in CheckerSources :
             ~harvester[s].failed /\ harvester[s].proxies = ScenarioYield)
       => /\ Len(uniqueProxies) = 2
          /\ {uniqueProxies[k] : k \in 1..Len(uniqueProxies)} = {MakeProxy(T1), MakeProxy(T2)}
    /\ (/\ mainpc = "done"
        /\ Len(uniqueProxies) = 2
        /\ {uniqueProxies[k] : k \in 1..Len(uniqueProxies)} = {MakeProxy(T1), MakeProxy(T2)}
        /\ stub
        /\ saveErr.valid = "nil" /\ saveErr.invalid = "nil"
        /\ ~sinkFailure.valid /\ ~sinkFailure.invalid)
       => /\ files.valid = << MakeProxy(T1).Full >>
          /\ files.invalid = << MakeProxy(T2).Full >>

\* the scenario ran to the end: both files hold the expected line
C8_Witness ==
  /\ prog = "checker" /\ mainpc = "done"
  /\ Len(uniqueProxies) = 2 /\ uniqueProxies[1] = MakeProxy(T1)
  /\ uniqueProxies[2] = MakeProxy(T2)
  /\ stub
  /\ saveErr.valid = "nil" /\ saveErr.invalid = "nil"
  /\ ~sinkFailure.valid /\ ~sinkFailure.invalid
  /\ files.valid = << MakeProxy(T1).Full >>
  /\ files.invalid = << MakeProxy(T2).Full >>

\* C9: bounded retry in scrapeProxiesFromURL.  At most 3 attempts are made, none
\* after a successful one, and the call returns an error only when all 3 attempts
\* failed.
C9_BoundedRetry ==
  prog = "checker" =>
    \A s \in CheckerSources :
      LET h == harvester[s] IN
        /\ h.attempts <= 3
        /\ h.attempts > h.failures => h.pc \notin {"get", "sleep"}
        /\ (h.pc \in {"ret", "done"} /\ h.failed) => (h.attempts = 3 /\ h.failures = 3)

\* C10: backoff in scrapeProxiesFromURL.  A call that fails twice and then succeeds
\* yields what an immediately succeeding call yields from the same body; every
\* delay is at least the previous one; every delay is taken between two attempts.
C10_BackoffBetweenAttempts ==
  prog = "checker" =>
    /\ \A s \in CheckerSources :
         LET h == harvester[s] IN
           /\ \A k \in 1..(Len(h.delays) - 1) : h.delays[k] <= h.delays[k + 1]
           /\ h.pc \in {"after", "ret", "done"} => Len(h.delays) = h.attempts - 1
    /\ \A s1, s2 \in CheckerSources :
         LET h1 == harvester[s1]
             h2 == harvester[s2]
         IN  (/\ h1.pc = "ret" /\ ~h1.failed /\ h1.failures = 2
              /\ h2.pc = "ret" /\ ~h2.failed /\ h2.failures = 0
              /\ h1.body = h2.body)
             => h1.proxies = h2.proxies

\* the elements of a list
Elems(list) == {list[k] : k \in 1..Len(list)}

\* C11, the states: when scrapeAllProxies (ProxyChecker program, deep.go) has
\* deduplicated, every source's goroutine has returned, failed or not, and every
\* candidate of a source that did not fail is in the deduplicated list; the
\* ProxyChecker program exits at the emptiness test only with an empty list.
C11_AllPassedOn ==
  /\ (prog \in {"checker", "deep"} /\ mainpc = "deduped") =>
       \A s \in CheckerSources :
         /\ harvester[s].pc = "done"
         /\ ~harvester[s].failed =>
              Elems(harvester[s].proxies) \subseteq
                (IF prog = "checker" THEN Elems(uniqueProxies) ELSE Elems(proxies))
  /\ (prog = "checker" /\ mainpc = "exit") => uniqueProxies = <<>>

\* C11, the steps: the step in which a source's fetch fails, and the step in which
\* its goroutine returns after the failure, change nothing but that goroutine.
C11_FailureStep ==
  /\ \A s \in CheckerSources :
       (\/ ~harvester[s].failed /\ harvester'[s].failed
        \/ harvester[s].failed /\ harvester[s].pc = "ret" /\ harvester'[s].pc = "done")
       => /\ \A t \in CheckerSources \ {s} : harvester'[t] = harvester[t]
          /\ UNCHANGED <<mainpc, allProxies, scrapeMu, proxies, uniqueProxies>>
  /\ \A s \in StreamSources :
       (scraper[s] = "get" /\ scraper'[s] = "done")
       => /\ \A t \in StreamSources \ {s} : scraper'[t] = scraper[t]
          /\ UNCHANGED <<mainpc, pending, scrapedProxiesChan, liveProxiesChan,
                         checkWorker, collector>>

\* C11: source-failure isolation.  A failing source stops no other harvester and
\* does not abort the pipeline, and the candidates of every succeeding source are
\* all passed on to the deduplication.
C11_SourceFailureIsolation == []C11_AllPassedOn /\ [][C11_FailureStep]_vars

\* ProxyChecker program: one source failed after its retries, the other one's
\* candidates were deduplicated and main goes on to validate them
C11_Witness ==
  /\ prog = "checker" /\ mainpc = "deduped"
  /\ \E s, t \in CheckerSources :
       /\ harvester[s].failed /\ harvester[s].attempts = 3
       /\ ~harvester[t].failed /\ Len(harvester[t].proxies) >= 2
  /\ Len(uniqueProxies) >= 2

\* C12: AllSourcesFailed.  When the harvest of all sources gave no candidate, the
\* program ends with a fatal error (log.Fatal, exit status 1) right after the
\* harvest: no validation goroutine is started and no file is written.
C12_EmptyHarvestIsFatal ==
  /\ (/\ prog = "checker"
      /\ mainpc \notin {"start", "waitScrape", "deduped"}
      /\ uniqueProxies = <<>>)
     => /\ mainpc = "exit"
        /\ \A w \in PCWorkerIds : pcWorker[w].pc = "none"
        /\ saveErr.valid = "none" /\ saveErr.invalid = "none"
  /\ (/\ prog \in {"collect", "deep"}
      /\ mainpc \notin {"start", "waitScrape", "deduped"}
      /\ proxies = <<>>)
     => /\ mainpc = "exit"
        /\ appender.pc = "none"
        /\ saveErr.good = "none"

\* C13: PersistFailure.  When the creation of an output file or a write to it
\* failed, the caller got an error (saveProxiesToFile returned one, or log.Fatalf
\* ended the process), and the lists in memory are what they were before the save.
C13_PersistFailureReported ==
  /\ \A f \in {"valid", "invalid", "good"} :
       sinkFailure[f] => saveErr[f] \in {"create", "write", "fatal"}
  /\ (prog = "checker" /\ mainpc \in {"saveInvalid", "done"}) =>
       Elems(validProxies) \cup Elems(invalidProxies) = Elems(uniqueProxies)
  /\ (prog = "deep" /\ saveErr.good # "none") => goodProxies = returned

\* the number a sequence of decimal digits writes
RECURSIVE PortNumber(_)
PortNumber(digits) ==
  IF digits = <<>> THEN 0
  ELSE 10 * PortNumber(SubSeq(digits, 1, Len(digits) - 1)) + digits[Len(digits)]

\* a token with a parseable IPv4 address and a port in [1,65535]
WellFormed(m) ==
  /\ Len(m.ip) = 4 /\ \A k \in 1..4 : m.ip[k] \in 0..255
  /\ PortNumber(m.port) >= 1 /\ PortNumber(m.port) <= 65535

\* C14: syntax validation in parseProxies.  The candidates a source yields are
\* exactly the tokens of its body with a parseable IPv4 address and a port in
\* [1,65535]: a token with port 0, with a port above 65535 or with an unparseable
\* address is discarded.
C14_SyntaxValidation ==
  prog = "checker" =>
    \A s \in CheckerSources :
      LET h == harvester[s] IN
        (h.pc \in {"ret", "append", "done"} /\ ~h.failed) =>
          /\ \A k \in 1..Len(h.proxies) :
               WellFormed([ip |-> h.proxies[k].IP, port |-> h.proxies[k].Port])
          /\ \A k \in 1..Len(h.body) :
               WellFormed(h.body[k]) => MakeProxy(h.body[k]) \in Elems(h.proxies)

\* the canonical form of a token: the text without the blanks around it
Canonical(token) == TrimSpace(token)

\* C15: dedup idempotence.  The list deduplicateProxies / removeDuplicateProxies
\* returns holds each canonical address of its input exactly once, also when the
\* input holds the address several times or in forms that differ in blanks.
C15_DedupCanonical ==
  /\ (prog \in {"collect", "deep"} /\ mainpc = "deduped") =>
       /\ \A i, j \in 1..Len(proxies) :
            i # j => Canonical(proxies[i]) # Canonical(proxies[j])
       /\ \A k \in 1..Len(allProxies) :
            (prog = "deep" \/ SplitParts(allProxies[k]) = 2) =>
              \E i \in 1..Len(proxies) : Canonical(proxies[i]) = Canonical(allProxies[k])
  /\ (prog = "checker" /\ mainpc = "deduped") =>
       /\ \A i, j \in 1..Len(uniqueProxies) :
            i # j => uniqueProxies[i].Full # uniqueProxies[j].Full
       /\ Elems(uniqueProxies) = Elems(allProxies)

\* C16: create-or-truncate persistence.  After a run that reached the save and
\* whose writes all succeeded, the output file holds exactly the live proxies of
\* this run, one per line, whatever it held before, also when there are none.
C16_FileIsLiveSet ==
  /\ (prog \in {"collect", "deep"} /\ mainpc = "done" /\ saveErr.good # "none"
      /\ ~sinkFailure.good)
     => files.good = returned
  /\ (prog = "stream" /\ mainpc = "done" /\ ~collector.werr)
     => /\ Elems(outputFile) = collector.uniqueProxies
        /\ Len(outputFile) = Cardinality(collector.uniqueProxies)

\* C17: pipelined overlap in the streaming pipeline.  While a scrapeProxies
\* goroutine is still harvesting, no stage behind it has been shut: both channels
\* are open, main waits for the scrapers, every checkProxyWorker is in its loop
\* and the collector has not finished; so candidates of an early source are
\* checked and collected during the harvest (the state C17_Witness).
C17_PipelinedOverlap ==
  prog = "stream" =>
    \A s \in StreamSources :
      scraper[s] \in {"get", "scan", "send"} =>
        /\ ~scrapedProxiesChan.closed
        /\ ~liveProxiesChan.closed
        /\ mainpc \in {"waitScrapers", "exit"}
        /\ \A w \in SpawnedWorkers : checkWorker[w].pc \in {"recv", "check", "send"}
        /\ collector.pc \in {"create", "loop"}

\* one source has been harvested to its end, a candidate of it was checked and
\* the collector has received and buffered it, and the other scrapeProxies has
\* not got its response yet
C17_Witness ==
  /\ prog = "stream"
  /\ \E s, t \in StreamSources :
       /\ scraper[s] = "done"
       /\ scraper[t] = "get"
  /\ collector.uniqueProxies # {}
  /\ collector.count >= 1

\* C18: accesses to the accumulated lists exclude each other.  At most one
\* goroutine is at an append to a list, and while the caller reads the list (the
\* return of the stage and what follows it) no goroutine is at an append to it.
C18_ExclusiveAccess ==
  /\ prog = "collect" =>
       (mainpc \in {"return", "returned"} => appender.pc # "append")
  /\ prog = "deep" =>
       /\ Cardinality({i \in Slots : goroutine[i].pc = "append"}) <= 1
       /\ mainpc \in {"returned", "done"} => \A i \in Slots : goroutine[i].pc # "append"
  /\ prog = "checker" =>
       /\ Cardinality({w \in PCWorkerIds : pcWorker[w].pc = "append"}) <= 1
       /\ mainpc \in {"saveValid", "saveInvalid", "done"} =>
            \A w \in PCWorkerIds : pcWorker[w].pc # "append"
  /\ prog \in {"checker", "collect", "deep"} =>
       /\ Cardinality({s \in CheckerSources : harvester[s].pc = "append"}) <= 1
       /\ mainpc = "deduped" => \A s \in CheckerSources : harvester[s].pc # "append"

\* C19: probe success criterion.  A probe is counted as successful only if a
\* response was received and its status is below 400, in testProxyConnection only
\* if also the body is not empty; a timeout or a connection error is a failed probe.
C19_ProbeSuccess ==
  /\ probed.ok.checkWithClient => ~probed.http.err /\ probed.http.status < 400
  /\ probed.ok.checkProxyWorker => ~probed.http.err /\ probed.http.status < 400
  /\ probed.ok.testProxyConnection =>
       /\ ~probed.conn.err /\ probed.conn.status < 400
       /\ probed.conn.body # <<>>

\* a redirect was counted as a success by checkWithClient and not by
\* checkProxyWorker, and a 200 with a body by testProxyConnection
C19_Witness ==
  /\ prog = "probe"
  /\ probed.applied = {"checkWithClient", "checkProxyWorker", "testProxyConnection"}
  /\ probed.http.status = 302
  /\ probed.ok.checkWithClient /\ ~probed.ok.checkProxyWorker
  /\ probed.ok.testProxyConnection

\* every goroutine of the streaming pipeline has returned and both channels are
\* closed and empty
StreamAllReturned ==
  /\ mainpc = "done"
  /\ \A s \in StreamSources : scraper[s] = "done"
  /\ \A w \in SpawnedWorkers : checkWorker[w].pc = "done"
  /\ collector.pc = "done"
  /\ scrapedProxiesChan.closed /\ scrapedProxiesChan.buf = <<>>
  /\ liveProxiesChan.closed /\ liveProxiesChan.buf = <<>>

\* C20: termination of the streaming pipeline.  Under fair scheduling every run
\* ends: main finishes with every scraper, every checkProxyWorker and the
\* collector returned and nothing left in a channel, or log.Fatalf ended the
\* process because the output file could not be created.
C20_Termination == <>(StreamAllReturned \/ mainpc = "exit")

\* more candidates than the intake buffer holds have been taken from it, the
\* output buffer is full and a worker is blocked sending one more live proxy
C20_Witness ==
  /\ prog = "stream"
  /\ taken[<<A1>>] + taken[<<A2>>] > scrapedCap
  /\ Len(liveProxiesChan.buf) = liveCap
  /\ \E w \in SpawnedWorkers : checkWorker[w].pc = "send"

\* C21: no send on a closed channel.  Whenever a channel is closed, every
\* goroutine that sends on it has completed its last send (the scrapers for
\* scrapedProxiesChan, the workers for liveProxiesChan, the per-proxy goroutines
\* for results, the send loop of validateProxies for jobs); the step that closes
\* a channel cannot be taken again once it is closed; and the function that owns
\* the channel does not finish with it open.
C21_NoSendOnClosed ==
  /\ prog = "stream" =>
       /\ scrapedProxiesChan.closed =>
            /\ \A s \in StreamSources : scraper[s] = "done"
            /\ ~ENABLED MainCloseScraped
       /\ liveProxiesChan.closed =>
            /\ \A w \in SpawnedWorkers : checkWorker[w].pc = "done"
            /\ ~ENABLED MainCloseLive
       /\ mainpc = "done" => scrapedProxiesChan.closed /\ liveProxiesChan.closed
  /\ prog = "collect" =>
       /\ resultsChan.closed =>
            /\ \A i \in Slots : goroutine[i].pc \in {"none", "done"}
            /\ ~ENABLED CollectClose
       /\ returned # <<"none">> => resultsChan.closed
  /\ prog = "checker" =>
       /\ jobs.closed =>
            /\ jobs.next > Len(uniqueProxies)
            /\ mainpc # "send"
            /\ ~ENABLED ValidateSend
            /\ ~ENABLED ValidateClose
       /\ mainpc \in {"saveValid", "saveInvalid", "done"} => jobs.closed

\* both channels of the pipeline are closed, the workers' last sends filled
\* liveProxiesChan before it was closed, and the collector has yet to drain it
C21_Witness ==
  /\ prog = "stream" /\ mainpc = "waitCollector"
  /\ scrapedProxiesChan.closed /\ liveProxiesChan.closed
  /\ Len(liveProxiesChan.buf) = liveCap

\* C22: live output of the streaming pipeline.  When collectAndSaveLiveProxies
\* has returned and no write failed, the lines of the output file are exactly
\* the addresses of which at least one check ended with status 200, and each of
\* them is there once.
C22_LiveOutput ==
  (prog = "stream" /\ collector.pc = "done" /\ ~collector.werr) =>
    /\ Elems(outputFile) = checkedLive
    /\ \A a \in checkedLive : Count(outputFile, a) = 1

\* the collector returned without a write error; one address was checked more
\* than once and is in the file once, another was checked and never found live
C22_Witness ==
  /\ prog = "stream" /\ collector.pc = "done" /\ ~collector.werr
  /\ taken[<<A1>>] >= 2 /\ <<A1>> \in checkedLive
  /\ taken[<<A2>>] >= 1 /\ <<A2>> \notin checkedLive
  /\ outputFile = << <<A1>> >>

\* the index of the first occurrence of x in list
FirstOccurrence(list, x) ==
  CHOOSE k \in 1..Len(list) : list[k] = x /\ \A j \in 1..(k - 1) : list[j] # x

\* C23: deduplicateProxies of deep.go.  The result has the elements of the input
\* and no others, each once, in the order of their first occurrences in the
\* input (so it is a subsequence of the input); the function applied to its own
\* result returns that result.
C23_DedupFirstOccurrences ==
  prog = "dedup" =>
    /\ mainpc \in {"applied", "reapplied"} =>
         /\ Elems(dedup.output) = Elems(dedup.input)
         /\ \A x \in Elems(dedup.input) : Count(dedup.output, x) = 1
         /\ \A i, j \in 1..Len(dedup.output) :
              i < j => FirstOccurrence(dedup.input, dedup.output[i])
                         < FirstOccurrence(dedup.input, dedup.output[j])
    /\ mainpc = "reapplied" => dedup.again = dedup.output

\* a list in which two strings alternate, one of them an address with the
\* blank of its table cell, reduced to those two and reduced again
C23_Witness ==
  /\ prog = "dedup" /\ mainpc = "reapplied"
  /\ Len(dedup.input) >= 4
  /\ dedup.input[1] = dedup.input[3] /\ dedup.input[2] = dedup.input[4]
  /\ dedup.input[1] = <<Blank>> \o Addr(IP1, Port1)
  /\ dedup.input[2] = Addr(IP1, Port1)
  /\ dedup.output = <<dedup.input[1], dedup.input[2]>>

====
